---- MODULE Spec2Model ----
(***************************************************************************)
(* Model of backend/main.py of HikePredictorApp: the GPX feature extractor *)
(* (calculate_segment_features, HikingModel.extract_features) and the      *)
(* training store with its regressor (HikingModel.add_training_data,       *)
(* remove_training_data, train_model, predict, get_all_data).              *)
(*                                                                         *)
(* Numbers.  Python floats are modelled in fixed point over the integers:  *)
(* distances and elevations in whole metres (a square root is rounded      *)
(* down), gradients in thousandths, completion times in hundredths of a    *)
(* minute.  The float nan and Python's None are two values outside every   *)
(* numeric range used.                                                     *)
(*                                                                         *)
(* A GPX document is a record [ok, segments]: ok is whether gpxpy.parse    *)
(* accepts the text, segments is the sequence of the segments of all       *)
(* tracks in document order (the loops of lines 74-75 visit them in that   *)
(* order), each a sequence of points [latitude, elevation, time].  Points  *)
(* lie on one meridian, so latitude is a position in metres and the        *)
(* longitude is left out.                                                  *)
(***************************************************************************)
EXTENDS Integers, Sequences, FiniteSets, TLC

VARIABLES
    model,            \* the module-level HikingModel (line 163)
    fit_rejects_nan,  \* whether the installed RandomForestRegressor.fit / predict raise on nan input
    next_id,          \* the next value uuid.uuid4() returns (ids are never repeated)
    last,             \* the call made last and how it ended
    emptied,          \* history: a remove emptied the store and no add has succeeded since
    trip,             \* history: how far an add, remove of its id, add of the same file has got
    probe,            \* one run of extract_features on its own: the input and the result
    unit,             \* one call of a HikingModel method on an object on its own
    reqs,             \* the requests in flight: where each client's handler stands
    resp              \* the response returned last by a handler

vars == <<model, fit_rejects_nan, next_id, last, emptied, trip, probe, unit, reqs, resp>>

\* lines 83, 93: a point without <ele> / <time> has elevation / time None
None == -1000001

\* line 35: the float nan (the first row of diff(), a missing value of a float column)
NaN == -1000000

----------------------------------------------------------------------------
(* Arithmetic *)

Abs(a) == IF a < 0 THEN -a ELSE a

\* a / b of floats, rounded toward zero
Quot(a, b) == IF a >= 0 THEN a \div b ELSE -((-a) \div b)

RECURSIVE SqrtIter(_, _, _)
SqrtIter(n, lo, hi) ==
    IF lo >= hi THEN lo
    ELSE LET mid == (lo + hi + 1) \div 2
         IN  IF mid * mid <= n THEN SqrtIter(n, mid, hi) ELSE SqrtIter(n, lo, mid - 1)

\* math.sqrt, rounded down
ISqrt(n) == SqrtIter(n, 0, IF n < 40000 THEN n ELSE 40000)

----------------------------------------------------------------------------
(* pandas reductions: nan entries are skipped (skipna) *)

RECURSIVE SumSeq(_)
SumSeq(s) ==
    IF s = <<>> THEN 0
    ELSE (IF Head(s) = NaN THEN 0 ELSE Head(s)) + SumSeq(Tail(s))

Valid(s) == SelectSeq(s, LAMBDA v : v # NaN)

SeqRange(s) == {s[i] : i \in DOMAIN s}

\* Series.max()
SeriesMax(s) ==
    LET S == SeqRange(Valid(s))
    IN  IF S = {} THEN NaN ELSE CHOOSE v \in S : \A w \in S : w <= v

\* Series.min()
SeriesMin(s) ==
    LET S == SeqRange(Valid(s))
    IN  IF S = {} THEN NaN ELSE CHOOSE v \in S : \A w \in S : v <= w

\* Series.mean()
SeriesMean(s) ==
    IF Valid(s) = <<>> THEN NaN ELSE Quot(SumSeq(s), Len(Valid(s)))

\* Series.std(): the sample standard deviation (ddof = 1), nan for fewer than two values
SeriesStd(s) ==
    LET v == Valid(s)
        m == SeriesMean(s)
        sq == [i \in DOMAIN v |-> (v[i] - m) * (v[i] - m)]
    IN  IF Len(v) < 2 THEN NaN ELSE ISqrt(SumSeq(sq) \div (Len(v) - 1))

----------------------------------------------------------------------------
(* gpxpy *)

distance_2d(p, q) == Abs(p.latitude - q.latitude)

\* GPXTrackPoint.distance_3d (called at line 88): the 2D distance when an
\* elevation is missing or both are equal, else the straight line
distance_3d(p, q) ==
    IF p.elevation = None \/ q.elevation = None \/ p.elevation = q.elevation
    THEN distance_2d(p, q)
    ELSE ISqrt(distance_2d(p, q) * distance_2d(p, q)
               + (p.elevation - q.elevation) * (p.elevation - q.elevation))

----------------------------------------------------------------------------
(* The extractor *)

Point(lat, ele, t) == [latitude |-> lat, elevation |-> ele, time |-> t]

\* lines 76-97: the rows of one segment; prev_point starts at None in every
\* segment, so the first row of each segment has distance_diff 0.  A row
\* without the key 'time' holds None there.
points_data(segment) ==
    [i \in 1..Len(segment) |->
        [elevation     |-> segment[i].elevation,
         distance_diff |-> IF i = 1 THEN 0 ELSE distance_3d(segment[i], segment[i - 1]),
         time          |-> segment[i].time]]

\* all_points with prev_point kept from one segment to the next
all_points_contiguous(segments) ==
    LET Cat[k \in 0..Len(segments)] ==
            IF k = 0 THEN <<>> ELSE Cat[k - 1] \o segments[k]
    IN  points_data(Cat[Len(segments)])

\* lines 72-99: all_points.extend(points_data) over the segments in order
RECURSIVE all_points(_)
all_points(segments) ==
    IF segments = <<>> THEN <<>>
    ELSE points_data(Head(segments)) \o all_points(Tail(segments))

\* line 101: the 'elevation' column.  With at least one number in it the
\* column is float64 and a None is nan.
elevation(points_df) ==
    [i \in DOMAIN points_df |->
        IF points_df[i].elevation = None THEN NaN ELSE points_df[i].elevation]

distance_diff(points_df) == [i \in DOMAIN points_df |-> points_df[i].distance_diff]

\* line 35: Series.diff(): nan in the first row and wherever an operand is nan
elevation_diff(points_df) ==
    LET e == elevation(points_df)
    IN  [i \in DOMAIN points_df |->
            IF i = 1 \/ e[i] = NaN \/ e[i - 1] = NaN THEN NaN ELSE e[i] - e[i - 1]]

\* lines 36-40: np.where(distance_diff > 0, elevation_diff / distance_diff, 0),
\* in thousandths
gradient(points_df) ==
    LET d  == distance_diff(points_df)
        ed == elevation_diff(points_df)
    IN  [i \in DOMAIN points_df |->
            IF d[i] > 0
            THEN (IF ed[i] = NaN THEN NaN ELSE Quot(ed[i] * 1000, d[i]))
            ELSE 0]

\* lines 47-59: the dict base_features, as the sequence of its (key, value)
\* pairs in insertion order
base_features(points_df) ==
    LET d  == distance_diff(points_df)
        e  == elevation(points_df)
        ed == elevation_diff(points_df)
        g  == gradient(points_df)
    IN  << <<"total_distance", SumSeq(d)>>,
           <<"total_elevation_gain", SumSeq(SelectSeq(ed, LAMBDA v : v # NaN /\ v > 0))>>,
           <<"total_elevation_loss", Abs(SumSeq(SelectSeq(ed, LAMBDA v : v # NaN /\ v < 0)))>>,
           <<"avg_gradient", SeriesMean(g)>>,
           <<"max_gradient", SeriesMax(g)>>,
           <<"min_gradient", SeriesMin(g)>>,
           <<"gradient_std", SeriesStd(g)>>,
           <<"max_elevation", SeriesMax(e)>>,
           <<"min_elevation", SeriesMin(e)>>,
           <<"elevation_range", SeriesMax(e) - SeriesMin(e)>>,
           <<"num_points", Len(points_df)>> >>

\* lines 29-61.  Three inputs raise: a frame without rows has no column
\* 'elevation' (KeyError: 'elevation', line 35); a column of None only is of dtype object,
\* whose diff() subtracts None from None (TypeError, line 35) or, with one
\* row, whose division by distance_diff 0 is Python's (ZeroDivisionError,
\* line 38).  The moving averages of lines 43-45 are computed and dropped.
calculate_segment_features(points_df) ==
    IF points_df = <<>>
    THEN [raised |-> "KeyError: elevation", features |-> <<>>]
    ELSE IF \A i \in DOMAIN points_df : points_df[i].elevation = None
    THEN [raised |-> IF Len(points_df) > 1 THEN "TypeError" ELSE "ZeroDivisionError",
          features |-> <<>>]
    ELSE [raised |-> "none", features |-> base_features(points_df)]

\* completion_time without the division by 60: seconds
completion_time_seconds(df) ==
    LET t == [i \in DOMAIN df |-> IF df[i].time = None THEN NaN ELSE df[i].time]
    IN  IF \E i \in DOMAIN df : df[i].time # None
        THEN (SeriesMax(t) - SeriesMin(t)) * 100
        ELSE None

\* lines 104-108: the column 'time' exists when some row has the key; max()
\* and min() skip the rows without it; minutes in hundredths
completion_time(df) ==
    LET t == [i \in DOMAIN df |-> IF df[i].time = None THEN NaN ELSE df[i].time]
    IN  IF \E i \in DOMAIN df : df[i].time # None
        THEN Quot((SeriesMax(t) - SeriesMin(t)) * 100, 60)
        ELSE None

\* lines 70-110
extract_features(gpx_content) ==
    IF ~gpx_content.ok
    THEN [raised |-> "GPXXMLSyntaxException", features |-> <<>>, completion_time |-> None]
    ELSE LET df == all_points(gpx_content.segments)
             f  == calculate_segment_features(df)
         IN  IF f.raised # "none"
             THEN [raised |-> f.raised, features |-> <<>>, completion_time |-> None]
             ELSE [raised |-> "none", features |-> f.features,
                   completion_time |-> completion_time(df)]

----------------------------------------------------------------------------
(* The training store and the regressor *)

\* Bound on the number of ids uuid.uuid4() hands out in a run
MaxAdds == 3

\* list(features.keys())
keys(features) == [i \in DOMAIN features |-> features[i][1]]

HasKey(features, f) == \E i \in DOMAIN features : features[i][1] = f

\* features[f]
Get(features, f) == features[CHOOSE i \in DOMAIN features : features[i][1] = f][2]

\* line 119: str(uuid.uuid4()), a value never returned before
uuid4 == next_id

\* RandomForestRegressor.fit(X, y) and .predict(X) validate X: scikit-learn
\* before 1.4 raises ValueError on a nan, later versions accept it
rejects(X) ==
    fit_rejects_nan /\ \E i \in DOMAIN X : \E j \in DOMAIN X[i] : X[i][j] = NaN

\* train_model with feature_names in another order than the first example's
\* keys (sorted, or from a set)
train_model_reordered(m) ==
    IF Len(m.data) < 1
    THEN [model |-> m, raised |-> "none"]
    ELSE LET ks == keys(m.data[1].features)
             names == [j \in DOMAIN ks |-> ks[Len(ks) + 1 - j]]
             named == [m EXCEPT !.feature_names = names]
             X == [i \in DOMAIN m.data |->
                      [j \in DOMAIN names |-> Get(m.data[i].features, names[j])]]
             y == [i \in DOMAIN m.data |-> m.data[i].completion_time]
         IN  IF rejects(X)
             THEN [model |-> named, raised |-> "FitError"]
             ELSE [model  |-> [named EXCEPT !.fit_X = X, !.fit_y = y, !.is_trained = TRUE],
                   raised |-> "none"]

\* train_model that marks the model untrained when there are no examples
train_model_resetting(m) ==
    IF Len(m.data) < 1
    THEN [model |-> [m EXCEPT !.is_trained = FALSE, !.feature_names = <<>>],
          raised |-> "none"]
    ELSE LET names == keys(m.data[1].features)
             named == [m EXCEPT !.feature_names = names]
             X == [i \in DOMAIN m.data |->
                      [j \in DOMAIN names |-> Get(m.data[i].features, names[j])]]
             y == [i \in DOMAIN m.data |-> m.data[i].completion_time]
         IN  IF rejects(X)
             THEN [model |-> named, raised |-> "FitError"]
             ELSE [model  |-> [named EXCEPT !.fit_X = X, !.fit_y = y, !.is_trained = TRUE],
                   raised |-> "none"]

\* lines 137-147.  The result is the model after the call and what was raised.
train_model(m) ==
    IF Len(m.data) < 1
    THEN [model |-> m, raised |-> "none"]
    ELSE LET names == keys(m.data[1].features)
             named == [m EXCEPT !.feature_names = names]
             X == [i \in DOMAIN m.data |->
                      [j \in DOMAIN names |-> Get(m.data[i].features, names[j])]]
             y == [i \in DOMAIN m.data |-> m.data[i].completion_time]
         IN  IF \E i \in DOMAIN m.data : \E j \in DOMAIN names :
                    ~HasKey(m.data[i].features, names[j])
             THEN [model |-> named, raised |-> "KeyError: feature"]
             ELSE IF rejects(X)
             THEN [model |-> named, raised |-> "FitError"]
             ELSE [model  |-> [named EXCEPT !.fit_X = X, !.fit_y = y, !.is_trained = TRUE],
                   raised |-> "none"]

\* lines 118-123
training_entry(id, name, e) ==
    [id |-> id, name |-> name, features |-> e.features,
     completion_time |-> e.completion_time]

\* add_training_data with the entry put first (insert(0, ...)) instead of appended
add_training_data_first(m, id, name, gpx_content) ==
    LET e == extract_features(gpx_content)
    IN  IF e.raised # "none"
        THEN [model |-> m, raised |-> e.raised, consumed |-> FALSE]
        ELSE IF e.completion_time = None
        THEN [model |-> m, raised |-> "MissingLabel", consumed |-> FALSE]
        ELSE LET t == train_model(
                        [m EXCEPT !.data = <<training_entry(id, name, e)>> \o m.data])
             IN  [model |-> t.model, raised |-> t.raised, consumed |-> TRUE]

\* add_training_data with the id taken from the length of the list instead of
\* uuid4
add_training_data_numbered(m, id, name, gpx_content) ==
    LET e == extract_features(gpx_content)
    IN  IF e.raised # "none"
        THEN [model |-> m, raised |-> e.raised, consumed |-> FALSE]
        ELSE IF e.completion_time = None
        THEN [model |-> m, raised |-> "MissingLabel", consumed |-> FALSE]
        ELSE LET t == train_model(
                        [m EXCEPT !.data =
                            Append(m.data, training_entry(Len(m.data) + 1, name, e))])
             IN  [model |-> t.model, raised |-> t.raised, consumed |-> TRUE]

\* lines 112-127.  consumed: whether uuid4 was called.
add_training_data(m, id, name, gpx_content) ==
    LET e == extract_features(gpx_content)
    IN  IF e.raised # "none"
        THEN [model |-> m, raised |-> e.raised, consumed |-> FALSE]
        ELSE IF e.completion_time = None
        THEN [model |-> m, raised |-> "MissingLabel", consumed |-> FALSE]
        ELSE LET t == train_model(
                        [m EXCEPT !.data = Append(m.data, training_entry(id, name, e))])
             IN  [model |-> t.model, raised |-> t.raised, consumed |-> TRUE]

\* remove_training_data with the filter turned round: it keeps the examples
\* with the id
remove_training_data_keeping(m, id) ==
    LET kept == [m EXCEPT !.data = SelectSeq(m.data, LAMBDA d : d.id = id)]
    IN  IF kept.data # <<>>
        THEN train_model(kept)
        ELSE [model  |-> [kept EXCEPT !.is_trained = FALSE, !.feature_names = <<>>],
              raised |-> "none"]

\* lines 129-135
remove_training_data(m, id) ==
    LET kept == [m EXCEPT !.data = SelectSeq(m.data, LAMBDA d : d.id # id)]
    IN  IF kept.data # <<>>
        THEN train_model(kept)
        ELSE [model  |-> [kept EXCEPT !.is_trained = FALSE, !.feature_names = <<>>],
              raised |-> "none"]

\* predict without the test of is_trained of lines 150-151
predict_unchecked(m, gpx_content) ==
    LET e == extract_features(gpx_content)
    IN  IF e.raised # "none" THEN e.raised
        ELSE IF m.feature_names = <<>> THEN "TypeError: feature_names"
        ELSE IF \E j \in DOMAIN m.feature_names : ~HasKey(e.features, m.feature_names[j])
        THEN "KeyError: feature"
        ELSE IF rejects(<<[j \in DOMAIN m.feature_names |->
                              Get(e.features, m.feature_names[j])]>>)
        THEN "FitError"
        ELSE "none"

\* lines 149-158, up to the regressor's answer: what is raised, if anything
predict(m, gpx_content) ==
    IF ~m.is_trained THEN "NotTrained"
    ELSE LET e == extract_features(gpx_content)
         IN  IF e.raised # "none" THEN e.raised
             ELSE IF m.feature_names = <<>> THEN "TypeError: feature_names"
             ELSE IF \E j \in DOMAIN m.feature_names : ~HasKey(e.features, m.feature_names[j])
             THEN "KeyError: feature"
             ELSE IF rejects(<<[j \in DOMAIN m.feature_names |->
                                   Get(e.features, m.feature_names[j])]>>)
             THEN "FitError"
             ELSE "none"

\* predict with an assignment to self.feature_names from the input's features
after_predict_renaming(m, gpx_content) ==
    LET e == extract_features(gpx_content)
    IN  IF m.is_trained /\ e.raised = "none"
        THEN [m EXCEPT !.feature_names = [j \in DOMAIN keys(e.features) |->
                           keys(e.features)[Len(e.features) + 1 - j]]]
        ELSE m

\* lines 149-158: the model object after predict.  predict and the
\* extract_features it calls assign to no attribute of self, and the rows
\* extract_features builds are new objects.
after_predict(m, gpx_content) == m

\* line 158: self.model.predict(X)[0].  A forest's answer is a mean of training
\* targets, between the least and the greatest target of the last fit: the two
\* ends stand for the values it can take.
estimates(m) == {SeriesMin(m.fit_y), SeriesMax(m.fit_y)}

\* lines 160-161
get_all_data(m) == m.data

----------------------------------------------------------------------------
(* The uploads *)

Malformed == [ok |-> FALSE, segments |-> <<>>]

Gpx(segments) == [ok |-> TRUE, segments |-> segments]

\* name and content of the files uploaded
Submissions ==
    << [name |-> "bad.gpx", gpx |-> Malformed],
       [name |-> "empty.gpx", gpx |-> Gpx(<< <<>> >>)],
       [name |-> "hike.gpx",
        gpx  |-> Gpx(<< <<Point(0, 100, 0), Point(50, 150, 60), Point(100, 120, 120)>> >>)],
       [name |-> "loop.gpx",
        gpx  |-> Gpx(<< <<Point(0, 0, 0), Point(3, 4, 60)>>, <<Point(6, 4, 90)>> >>)],
       [name |-> "summit.gpx", gpx |-> Gpx(<< <<Point(0, 4, 30)>> >>)],
       [name |-> "partial.gpx",
        gpx  |-> Gpx(<< <<Point(0, 0, 0), Point(3, 4, None), Point(6, 8, 90)>> >>)],
       [name |-> "plan.gpx", gpx |-> Gpx(<< <<Point(0, 0, None), Point(3, 4, None)>> >>)],
       [name |-> "flat.gpx", gpx |-> Gpx(<< <<Point(0, None, 0), Point(3, None, 60)>> >>)] >>

----------------------------------------------------------------------------
(* The service: one call of the model after another *)

\* lines 64-68; fit_X, fit_y: the data of the regressor's last successful fit
HikingModel ==
    [data |-> <<>>, is_trained |-> FALSE, feature_names |-> <<>>,
     fit_X |-> <<>>, fit_y |-> <<>>]

\* No call of extract_features made yet
NoProbe ==
    [gpx |-> Malformed, done |-> FALSE,
     result |-> [raised |-> "pending", features |-> <<>>, completion_time |-> None]]

\* No add into an empty store made yet
NoTrip == [stage |-> 0, s |-> 0, entry |-> <<>>]

\* No method called on an object on its own
NoUnit ==
    [op |-> "none", m |-> HikingModel, arg |-> 0, done |-> FALSE,
     result |-> [model |-> HikingModel, raised |-> "pending"]]

\* The clients that send requests
Clients == {"c1", "c2"}

\* A client with no request in flight
Idle == [pc |-> "idle", s |-> 0]

\* No response returned yet
NoResponse ==
    [kind |-> "none", status |-> "none", raised |-> "none", awaited |-> FALSE,
     trained |-> FALSE]

Init ==
    /\ model = HikingModel
    /\ fit_rejects_nan \in BOOLEAN
    /\ next_id = 1
    /\ last = [op |-> "init", arg |-> 0, raised |-> "none", value |-> 0]
    /\ emptied = FALSE
    /\ trip = NoTrip
    /\ probe = NoProbe
    /\ unit = NoUnit
    /\ reqs = [c \in Clients |-> Idle]
    /\ resp = NoResponse

\* model.add_training_data(file.filename, contents.decode()); r is the outcome
\* of the call
Add(s) ==
    /\ next_id <= MaxAdds
    /\ \E r \in {add_training_data(model, uuid4, Submissions[s].name, Submissions[s].gpx)} :
           /\ model' = r.model
           /\ next_id' = IF r.consumed THEN next_id + 1 ELSE next_id
           /\ last' = [op |-> "add", arg |-> s, raised |-> r.raised,
                       value |-> IF r.consumed THEN uuid4 ELSE 0]
           /\ emptied' = (emptied /\ r.raised # "none")
           /\ trip' = IF trip.stage = 2 /\ trip.s = s
                      THEN [trip EXCEPT !.stage = 3]
                      ELSE IF model.data = <<>> /\ r.raised = "none"
                      THEN [stage |-> 1, s |-> s, entry |-> r.model.data]
                      ELSE NoTrip
    /\ UNCHANGED <<fit_rejects_nan, probe, unit, reqs, resp>>

\* model.remove_training_data(id)
Remove(id) ==
    /\ \E r \in {remove_training_data(model, id)} :
           /\ model' = r.model
           /\ last' = [op |-> "remove", arg |-> id, raised |-> r.raised, value |-> 0]
           /\ emptied' = (emptied \/ (model.data # <<>> /\ r.model.data = <<>>))
           /\ trip' = IF trip.stage = 1 /\ id = trip.entry[1].id
                      THEN [trip EXCEPT !.stage = 2]
                      ELSE NoTrip
    /\ UNCHANGED <<fit_rejects_nan, next_id, probe, unit, reqs, resp>>

\* model.predict(contents.decode())
Predict(s) ==
    /\ \E r \in {predict(model, Submissions[s].gpx)} :
           \E est \in (IF r = "none" THEN estimates(model) ELSE {0}) :
              last' = [op |-> "predict", arg |-> s, raised |-> r, value |-> est]
    /\ model' = after_predict(model, Submissions[s].gpx)
    /\ UNCHANGED <<fit_rejects_nan, next_id, emptied, trip, probe, unit, reqs, resp>>

\* model.get_all_data()
List ==
    /\ last' = [op |-> "list", arg |-> 0, raised |-> "none",
                value |-> Len(get_all_data(model))]
    /\ UNCHANGED <<model, fit_rejects_nan, next_id, emptied, trip, probe, unit, reqs, resp>>

Next ==
    \/ \E s \in DOMAIN Submissions : Add(s)
    \/ \E id \in 1..next_id : Remove(id)
    \/ \E s \in DOMAIN Submissions : Predict(s)
    \/ List

Spec == Init /\ [][Next]_vars

----------------------------------------------------------------------------
(* extract_features on its own, over every small document *)

\* Bound on the number of points of a document
MaxPoints == 2

Points ==
    {Point(lat, ele, t) : lat \in {0, 3}, ele \in {None, 0, 4}, t \in {None, 0, 90}}

\* The segments of the points f, a segment starting at each index in starts
Segmented(f, starts) ==
    LET nth(k) == CHOOSE i \in starts : Cardinality({j \in starts : j < i}) = k - 1
        end(k) == IF k = Cardinality(starts) THEN Len(f) ELSE nth(k + 1) - 1
    IN  [k \in 1..Cardinality(starts) |-> SubSeq(f, nth(k), end(k))]

Documents ==
    {Malformed, Gpx(<<>>)} \cup
    UNION {{Gpx(Segmented(f, {1} \cup cuts)) : cuts \in SUBSET (2..n), f \in [1..n -> Points]}
           : n \in 1..MaxPoints}

ExtractInit ==
    /\ model = HikingModel
    /\ fit_rejects_nan = FALSE
    /\ next_id = 1
    /\ last = [op |-> "init", arg |-> 0, raised |-> "none", value |-> 0]
    /\ emptied = FALSE
    /\ trip = NoTrip
    /\ probe \in {[NoProbe EXCEPT !.gpx = g] : g \in Documents}
    /\ unit = NoUnit
    /\ reqs = [c \in Clients |-> Idle]
    /\ resp = NoResponse

\* features, completion_time = self.extract_features(gpx_content)
Extract ==
    /\ ~probe.done
    /\ probe' = [probe EXCEPT !.done = TRUE, !.result = extract_features(probe.gpx)]
    /\ UNCHANGED <<model, fit_rejects_nan, next_id, last, emptied, trip, unit, reqs, resp>>

ExtractSpec == ExtractInit /\ [][Extract]_vars

----------------------------------------------------------------------------
(* The request handlers.  They are coroutines on one event loop: a handler  *)
(* runs without interruption from one await to the next, and the only       *)
(* await of a handler is `await file.read()` (lines 168 and 194).  The      *)
(* methods of HikingModel are plain functions without an await, so a call   *)
(* of one is part of a single step.  last, emptied and trip follow the      *)
(* calls of Spec and stay as they are here.                                 *)

\* A handler whose call of the model is outside the try block
handler_result_uncaught(raised) == IF raised = "none" THEN "success" ELSE "escaped"

\* lines 169-174, 178-182, 195-202: try: ... return the payload; except
\* Exception as e: return {"error": str(e)}
handler_result(raised) == IF raised = "none" THEN "success" ELSE "error"

\* The files the clients upload
Uploads ==
    {s \in DOMAIN Submissions :
        Submissions[s].name \in {"bad.gpx", "empty.gpx", "hike.gpx", "summit.gpx"}}

\* The requests to /train that wait for their file
Training_in_flight == Cardinality({c \in Clients : reqs[c].pc = "train"})

\* lines 165-168: add_training_data up to `contents = await file.read()`
TrainStart(c, s) ==
    /\ reqs[c].pc = "idle"
    /\ next_id + Training_in_flight <= MaxAdds
    /\ reqs' = [reqs EXCEPT ![c] = [pc |-> "train", s |-> s]]
    /\ UNCHANGED <<model, fit_rejects_nan, next_id, last, emptied, trip, probe, unit, resp>>

\* lines 169-174: add_training_data from the moment the file has been read
TrainFinish(c) ==
    /\ reqs[c].pc = "train"
    /\ \E r \in {add_training_data(model, uuid4, Submissions[reqs[c].s].name,
                                     Submissions[reqs[c].s].gpx)} :
           /\ model' = r.model
           /\ next_id' = IF r.consumed THEN next_id + 1 ELSE next_id
           /\ resp' = [kind |-> "train", status |-> handler_result(r.raised),
                       raised |-> r.raised, awaited |-> TRUE, trained |-> model.is_trained]
    /\ reqs' = [reqs EXCEPT ![c] = Idle]
    /\ UNCHANGED <<fit_rejects_nan, last, emptied, trip, probe, unit>>

\* lines 176-182: remove_training_data, which has no await
Delete(c, id) ==
    /\ reqs[c].pc = "idle"
    /\ \E r \in {remove_training_data(model, id)} :
           /\ model' = r.model
           /\ resp' = [kind |-> "delete", status |-> handler_result(r.raised),
                       raised |-> r.raised, awaited |-> FALSE, trained |-> model.is_trained]
    /\ UNCHANGED <<fit_rejects_nan, next_id, last, emptied, trip, probe, unit, reqs>>

\* lines 184-186: get_training_data returns model.get_all_data(), which
\* raises nothing
GetData(c) ==
    /\ reqs[c].pc = "idle"
    /\ resp' = [kind |-> "list", status |-> "success", raised |-> "none",
                awaited |-> FALSE, trained |-> model.is_trained]
    /\ UNCHANGED <<model, fit_rejects_nan, next_id, last, emptied, trip, probe, unit, reqs>>

\* lines 188-194: predict_time up to `contents = await file.read()`; it
\* returns the error at once when the model is not trained
PredictStart(c, s) ==
    /\ reqs[c].pc = "idle"
    /\ IF ~model.is_trained
       THEN /\ resp' = [kind |-> "predict", status |-> "error", raised |-> "NotTrained",
                        awaited |-> FALSE, trained |-> FALSE]
            /\ reqs' = reqs
       ELSE /\ reqs' = [reqs EXCEPT ![c] = [pc |-> "predict", s |-> s]]
            /\ resp' = resp
    /\ UNCHANGED <<model, fit_rejects_nan, next_id, last, emptied, trip, probe, unit>>

\* lines 195-202: predict_time from the moment the file has been read
PredictFinish(c) ==
    /\ reqs[c].pc = "predict"
    /\ \E r \in {predict(model, Submissions[reqs[c].s].gpx)} :
           resp' = [kind |-> "predict", status |-> handler_result(r), raised |-> r,
                    awaited |-> TRUE, trained |-> model.is_trained]
    /\ model' = after_predict(model, Submissions[reqs[c].s].gpx)
    /\ reqs' = [reqs EXCEPT ![c] = Idle]
    /\ UNCHANGED <<fit_rejects_nan, next_id, last, emptied, trip, probe, unit>>

HandlerNext ==
    \E c \in Clients :
        \/ \E s \in Uploads : TrainStart(c, s)
        \/ TrainFinish(c)
        \/ \E id \in 1..next_id : Delete(c, id)
        \/ GetData(c)
        \/ \E s \in Uploads : PredictStart(c, s)
        \/ PredictFinish(c)

HandlerSpec == Init /\ [][HandlerNext]_vars

----------------------------------------------------------------------------
(* train_model and remove_training_data on their own: one call on a         *)
(* HikingModel object.  The attributes data, is_trained and feature_names   *)
(* are public and train_model takes the object as it finds it, so the       *)
(* objects are all combinations of a list of examples, a flag and a list    *)
(* of names.                                                                *)

\* The files that make an example: features and a completion time
Examples ==
    {s \in DOMAIN Submissions :
        /\ extract_features(Submissions[s].gpx).raised = "none"
        /\ extract_features(Submissions[s].gpx).completion_time # None}

\* The lists of examples of up to MaxAdds entries, with the ids 1, 2, ...
Stores ==
    UNION {{[i \in 1..n |-> training_entry(i, Submissions[f[i]].name,
                                           extract_features(Submissions[f[i]].gpx))]
               : f \in [1..n -> Examples]}
           : n \in 0..MaxAdds}

Objects ==
    {[HikingModel EXCEPT !.data = d, !.is_trained = b, !.feature_names = names]
        : d \in Stores, b \in BOOLEAN,
          names \in {<<>>, keys(base_features(points_data(<<Point(0, 0, 0)>>)))}}

TrainInit ==
    /\ model = HikingModel
    /\ fit_rejects_nan \in BOOLEAN
    /\ next_id = 1
    /\ last = [op |-> "init", arg |-> 0, raised |-> "none", value |-> 0]
    /\ emptied = FALSE
    /\ trip = NoTrip
    /\ probe = NoProbe
    /\ unit \in {[NoUnit EXCEPT !.m = o] : o \in Objects}
    /\ reqs = [c \in Clients |-> Idle]
    /\ resp = NoResponse

\* self.train_model()
UnitTrain ==
    /\ ~unit.done
    /\ unit' = [unit EXCEPT !.op = "train_model", !.done = TRUE,
                            !.result = train_model(unit.m)]
    /\ UNCHANGED <<model, fit_rejects_nan, next_id, last, emptied, trip, probe, reqs, resp>>

\* self.remove_training_data(id)
UnitRemove(id) ==
    /\ ~unit.done
    /\ unit' = [unit EXCEPT !.op = "remove_training_data", !.arg = id, !.done = TRUE,
                            !.result = remove_training_data(unit.m, id)]
    /\ UNCHANGED <<model, fit_rejects_nan, next_id, last, emptied, trip, probe, reqs, resp>>

TrainNext ==
    \/ UnitTrain
    \/ \E id \in 1..MaxAdds : UnitRemove(id)

TrainSpec == TrainInit /\ [][TrainNext]_vars

----------------------------------------------------------------------------
(* Properties *)

RECURSIVE Flatten(_)
Flatten(segments) ==
    IF segments = <<>> THEN <<>> ELSE Head(segments) \o Flatten(Tail(segments))

PointsOf(gpx) == Flatten(gpx.segments)

\* The timestamps of a document's points
Stamps(gpx) == {PointsOf(gpx)[i].time : i \in DOMAIN PointsOf(gpx)} \ {None}

NumStamped(gpx) == Cardinality({i \in DOMAIN PointsOf(gpx) : PointsOf(gpx)[i].time # None})

Ids(data) == {data[i].id : i \in DOMAIN data}

\* The part of the model the claims call the store and the model state
Training(m) == <<m.data, m.is_trained, m.feature_names>>

AddFailed == last.op = "add" /\ last.raised # "none"

\* C1: a failed add leaves the examples, is_trained and feature_names as they
\* were before the call.
C1_FailedAddChangesNothing ==
    [][AddFailed' => Training(model') = Training(model)]_vars

\* C2: remove(id) twice leaves the same store, is_trained and feature_names as
\* remove(id) once, and remove of an id that is not in the store leaves the
\* store unchanged and raises nothing.
C2_RemoveIdempotent ==
    [][last'.op = "remove" =>
          /\ Training(remove_training_data(model', last'.arg).model) = Training(model')
          /\ last'.arg \notin Ids(model.data) =>
                model'.data = model.data /\ last'.raised = "none"]_vars

\* C3: once a remove has emptied the store, is_trained is false and
\* feature_names is cleared, and every predict before the next successful add
\* fails with the not-trained error.
C3_EmptiedStoreRefusesPredict ==
    /\ (last.op = "remove" /\ model.data = <<>>) =>
           (~model.is_trained /\ model.feature_names = <<>>)
    /\ (emptied /\ last.op = "predict") => last.raised = "NotTrained"

\* C4: a track with a point that lacks a timestamp has no completion time: add
\* fails with the missing-label error and stores nothing.
C4_PartlyStampedIsUnlabelled ==
    (/\ last.op = "add"
     /\ extract_features(Submissions[last.arg].gpx).raised = "none"
     /\ NumStamped(Submissions[last.arg].gpx) < Len(PointsOf(Submissions[last.arg].gpx)))
    => last.raised = "MissingLabel"

SetMax(S) == CHOOSE v \in S : \A w \in S : w <= v

SetMin(S) == CHOOSE v \in S : \A w \in S : v <= w

\* C5: a successful add of a track with at least two timestamped points makes
\* the list one longer, keeps the examples that were there, and the new, last
\* example has the given name and the completion time (max timestamp - min
\* timestamp) in minutes (hundredths here): 2 minutes for 0 s / 60 s / 120 s.
C5_AddAppendsLabelledExample ==
    [][(/\ last'.op = "add"
        /\ last'.raised = "none"
        /\ NumStamped(Submissions[last'.arg].gpx) >= 2)
       => LET before == get_all_data(model)
              after  == get_all_data(model')
              new    == after[Len(after)]
              stamps == Stamps(Submissions[last'.arg].gpx)
          IN  /\ Len(after) = Len(before) + 1
              /\ SubSeq(after, 1, Len(before)) = before
              /\ new.name = Submissions[last'.arg].name
              /\ 60 * new.completion_time = 100 * (SetMax(stamps) - SetMin(stamps))
              /\ stamps = {0, 60, 120} => new.completion_time = 200]_vars

C5_Witness ==
    /\ last.op = "add" /\ last.raised = "none"
    /\ Stamps(Submissions[last.arg].gpx) = {0, 60, 120}
    /\ Len(model.data) = 2
    /\ model.data[2].name = "hike.gpx"
    /\ model.data[2].completion_time = 200

\* C6: is_trained only with a non-empty store and a fit that succeeded; an
\* empty store is untrained with feature_names cleared; is_trained turns true
\* only on an add whose fit succeeds and false only on the remove of the last
\* example.
C6_TrainedStateTransitions ==
    [][/\ model'.is_trained => (model'.data # <<>> /\ model'.fit_X # <<>>)
       /\ model'.data = <<>> => (~model'.is_trained /\ model'.feature_names = <<>>)
       /\ (~model.is_trained /\ model'.is_trained) =>
              (last'.op = "add" /\ last'.raised = "none")
       /\ (model.is_trained /\ ~model'.is_trained) =>
              (last'.op = "remove" /\ model.data # <<>> /\ model'.data = <<>>)]_vars

\* C7: feature_names, when set, is the key list of the first stored example
\* in its order, every stored example has that same key order, and a predict
\* in a trained state never fails on a name missing from the extracted
\* features.
C7_FeatureOrderStable ==
    /\ model.feature_names # <<>> =>
          /\ model.data # <<>>
          /\ model.feature_names = keys(model.data[1].features)
          /\ \A i \in DOMAIN model.data :
                keys(model.data[i].features) = model.feature_names
    /\ model.is_trained => model.feature_names # <<>>
    /\ last.op = "predict" => last.raised \notin {"KeyError: feature", "TypeError: feature_names"}
    /\ (last.op = "predict" /\ model.is_trained
        /\ extract_features(Submissions[last.arg].gpx).raised = "none")
       => last.raised \in {"none", "FitError"}

C7_Witness ==
    /\ model.is_trained
    /\ Len(model.data) = 2
    /\ model.data[1].name # model.data[2].name
    /\ last.op = "predict" /\ last.raised = "none"

\* The ids are handed out in increasing order, so the examples are in the
\* order of their adds when their ids increase
InInsertionOrder(data) ==
    \A i, j \in DOMAIN data : i < j => data[i].id < data[j].id

\* C8: the list is in insertion order: an add places its example last, a
\* remove deletes the examples with that id and keeps the others as they are
\* and in their order, and nothing else changes the list.
C8_ListInInsertionOrder ==
    [][/\ InInsertionOrder(get_all_data(model'))
       /\ (last'.op = "add" /\ last'.value # 0) =>
             /\ Len(model'.data) = Len(model.data) + 1
             /\ SubSeq(model'.data, 1, Len(model.data)) = model.data
             /\ model'.data[Len(model'.data)].id = last'.value
       /\ (last'.op = "add" /\ last'.value = 0) => model'.data = model.data
       /\ last'.op = "remove" =>
             model'.data = SelectSeq(model.data, LAMBDA d : d.id # last'.arg)
       /\ last'.op \in {"predict", "list"} => model'.data = model.data]_vars

C8_Witness ==
    /\ last.op = "remove" /\ last.arg = 2
    /\ Len(model.data) = 2
    /\ model.data[1].id = 1
    /\ model.data[2].id = 3

\* The length of the path through the points q, leg by leg
PathLength(q) ==
    SumSeq([i \in 1..Len(q) |-> IF i = 1 THEN 0 ELSE distance_3d(q[i], q[i - 1])])

RECURSIVE PathLengths(_)
PathLengths(segments) ==
    IF segments = <<>> THEN 0
    ELSE PathLength(Head(segments)) + PathLengths(Tail(segments))

Extracted == probe.done /\ probe.result.raised = "none"

\* C9 as claimed: the leg from the last point of a segment to the first point
\* of the next counts, so total_distance is the length of the path through the
\* flattened points.
C9_GapBetweenSegmentsCounts ==
    Extracted =>
        /\ Get(probe.result.features, "num_points") = Len(PointsOf(probe.gpx))
        /\ Get(probe.result.features, "total_distance") = PathLength(PointsOf(probe.gpx))

\* C9 as amended: the points are flattened in source order, the first point of
\* every segment has distance_diff 0, and total_distance is the sum over the
\* segments of the length of the path through each segment's points: the leg
\* between two segments is not counted.
C9_DistanceWithinSegments ==
    Extracted =>
        /\ Get(probe.result.features, "num_points") = Len(PointsOf(probe.gpx))
        /\ Get(probe.result.features, "total_distance") = PathLengths(probe.gpx.segments)
        /\ \A k \in DOMAIN probe.gpx.segments :
              points_data(probe.gpx.segments[k])[1].distance_diff = 0

C9_Witness ==
    /\ Extracted
    /\ Len(probe.gpx.segments) = 2
    /\ Get(probe.result.features, "total_distance") = 0
    /\ PathLength(PointsOf(probe.gpx)) = 5

\* The rows with 0 in place of each missing elevation
ZeroFilled(points_df) ==
    [i \in DOMAIN points_df |->
        IF points_df[i].elevation = None
        THEN [points_df[i] EXCEPT !.elevation = 0] ELSE points_df[i]]

ElevationFeatures ==
    {"total_elevation_gain", "total_elevation_loss", "avg_gradient", "max_gradient",
     "min_gradient", "gradient_std"}

\* C10: when points lack elevation, extraction does not fail for it, and the
\* elevation gain and loss and the gradient statistics are those of the same
\* rows with 0 in place of each missing elevation.
C10_MissingElevationIsZero ==
    (/\ probe.done
     /\ probe.gpx.ok
     /\ \E i \in DOMAIN PointsOf(probe.gpx) : PointsOf(probe.gpx)[i].elevation = None)
    => /\ probe.result.raised = "none"
       /\ \A f \in ElevationFeatures :
             Get(probe.result.features, f)
                = Get(base_features(ZeroFilled(all_points(probe.gpx.segments))), f)

\* C12: from an empty store, add(content), remove(the id returned), add(the
\* same content) gives a store of exactly one example whose feature values and
\* completion time are those of the first add's example, with the model
\* trained.
C12_RoundTrip ==
    trip.stage = 3 =>
        /\ Len(model.data) = 1
        /\ model.data[1].features = trip.entry[1].features
        /\ model.data[1].completion_time = trip.entry[1].completion_time
        /\ model.is_trained

C12_Witness ==
    /\ trip.stage = 3
    /\ last.op = "add"
    /\ Submissions[trip.s].name = "hike.gpx"
    /\ model.data[1].id = trip.entry[1].id + 1

\* X of line 143 for the examples stored now
DesignMatrix(m) ==
    [i \in DOMAIN m.data |->
        [j \in DOMAIN m.feature_names |-> Get(m.data[i].features, m.feature_names[j])]]

\* y of line 144 for the examples stored now
Targets(m) == [i \in DOMAIN m.data |-> m.data[i].completion_time]

\* C14: whenever is_trained is true, the data of the last successful fit is
\* the store as it is now: the same examples in the same order, the columns in
\* feature_names order, the targets their completion times.
C14_FitIsCurrentStore ==
    model.is_trained =>
        /\ model.fit_X = DesignMatrix(model)
        /\ model.fit_y = Targets(model)

\* C18: predict is read-only: the examples with their feature vectors,
\* is_trained and feature_names are the same after a predict as before it,
\* whether it succeeds or fails.
C18_PredictReadOnly ==
    [][last'.op = "predict" => Training(model') = Training(model)]_vars

C18_Witness ==
    /\ last.op = "predict"
    /\ last.raised = "GPXXMLSyntaxException"
    /\ model.is_trained
    /\ Len(model.data) = 3

\* C19: uuid4 never repeating, the stored ids are pairwise distinct, an id
\* that enters the store is the one uuid4 has just returned, greater than
\* every id returned before (so an id once removed never comes back), and a
\* remove makes the list shorter by 0 or 1.
C19_IdsNeverRepeat ==
    [][/\ \A i, j \in DOMAIN model'.data :
             i # j => model'.data[i].id # model'.data[j].id
       /\ \A id \in Ids(model.data) : id < next_id
       /\ \A id \in Ids(model'.data) \ Ids(model.data) :
             id = next_id /\ next_id' = next_id + 1
       /\ last'.op = "remove" =>
             Len(model.data) - Len(model'.data) \in {0, 1}]_vars

C19_Witness ==
    /\ last.op = "add" /\ last.raised = "none"
    /\ Len(model.data) = 2
    /\ model.data[1].id = 2
    /\ model.data[2].id = 3

\* C13: a track of a single point is not an error: extraction succeeds with
\* total_distance 0, num_points 1 and gradient 0 for the point, and with
\* completion time 0 minutes when the point has a timestamp.
C13_SinglePointTrack ==
    (probe.done /\ probe.gpx.ok /\ Len(PointsOf(probe.gpx)) = 1)
    => /\ probe.result.raised = "none"
       /\ Get(probe.result.features, "total_distance") = 0
       /\ Get(probe.result.features, "num_points") = 1
       /\ \A f \in {"avg_gradient", "max_gradient", "min_gradient"} :
             Get(probe.result.features, f) = 0
       /\ PointsOf(probe.gpx)[1].time # None => probe.result.completion_time = 0

\* C16: the division of line 38 never fails, and every point's gradient is
\* a number: elevation_diff / distance_diff (thousandths here) where
\* distance_diff > 0 and exactly 0 where distance_diff = 0, so that no
\* undefined gradient is among the values the gradient statistics are taken of.
C16_GradientDefined ==
    (probe.done /\ probe.gpx.ok /\ PointsOf(probe.gpx) # <<>>)
    => /\ probe.result.raised # "ZeroDivisionError"
       /\ probe.result.raised = "none" =>
             LET points_df == all_points(probe.gpx.segments)
                 d  == distance_diff(points_df)
                 ed == elevation_diff(points_df)
                 g  == gradient(points_df)
             IN  \A i \in DOMAIN points_df :
                    /\ g[i] # NaN
                    /\ d[i] > 0 => (ed[i] # NaN /\ g[i] = Quot(ed[i] * 1000, d[i]))
                    /\ d[i] = 0 => g[i] = 0

C11_HandlersAlwaysAnswer ==
    /\ resp.kind # "none" =>
          /\ resp.status \in {"success", "error"}
          /\ resp.status = "error" <=> resp.raised # "none"
    /\ \A c \in Clients :
          /\ reqs[c].pc \in {"idle", "train", "predict"}
          /\ reqs[c].pc = "idle" => ENABLED GetData(c)

C11_Witness ==
    /\ resp.kind = "train"
    /\ resp.status = "error"
    /\ resp.raised = "FitError"
    /\ \E c \in Clients : reqs[c].pc = "predict"

\* C17: under every interleaving of the handlers at their awaits, a predict
\* never indexes a cleared feature_names: a request to predict that passed
\* the handler's test of is_trained and finds the model untrained when it
\* calls model.predict (the last example was deleted while it waited for its
\* file) ends with the not-trained error, not with an estimate or a crash;
\* and the model is never trained with feature_names cleared.
C17_RacingPredictRefused ==
    /\ resp.kind = "predict" => resp.raised # "TypeError: feature_names"
    /\ (resp.kind = "predict" /\ resp.awaited /\ ~resp.trained) =>
          (resp.status = "error" /\ resp.raised = "NotTrained")
    /\ model.is_trained => model.feature_names # <<>>

C17_Witness ==
    /\ resp.kind = "predict"
    /\ resp.awaited
    /\ ~resp.trained
    /\ resp.raised = "NotTrained"
    /\ model.data = <<>>

====
